---- MODULE Spec2Model ----
(***************************************************************************)
(* Model of the mkbootimage driver (src/mkbootimage.c): the argp callback  *)
(* argp_parser, the helper derive_filename and the control flow of main,   *)
(* from argument parsing to the cleanup labels.  The parser, the size      *)
(* estimator, the compositor and the C library are collaborators of main:  *)
(* each call is a step of main whose result is chosen among the values the *)
(* callee can hand back.                                                   *)
(***************************************************************************)
EXTENDS Integers, Sequences, FiniteSets, TLC

(***************************************************************************)
(* Bounds of the model.                                                    *)
(***************************************************************************)
\* number of argument events (options and positionals) argp delivers
MaxArgs == 3
\* largest nodes_num a parse hands back
MaxNodes == 2
\* largest used length (in words) create_boot_image hands back
MaxWords == 3

(***************************************************************************)
(* C strings: a sequence of characters closed by the terminator NUL.  The  *)
(* NULL pointer is the empty sequence, the empty string is <<NUL>>.        *)
(***************************************************************************)
NUL == "NUL"
NULL == <<>>
strlen(s) == Len(s) - 1

\* strrchr(s + from - 1, c), as a 1-based index into s, 0 when c is absent
strrchr(s, from, c) ==
  LET hits == {i \in from..strlen(s) : s[i] = c}
  IN IF hits = {} THEN 0 ELSE CHOOSE i \in hits : \A j \in hits : j <= i

\* the string derive_filename builds when its malloc succeeds
derive_filename(src, new_ext) ==
  LET sep == strrchr(src, 1, "/")
      sep_back == strrchr(src, 1, "\\")
      base0 == IF sep = 0 \/ (sep_back # 0 /\ sep_back > sep) THEN sep_back ELSE sep
      base == IF base0 # 0 THEN base0 + 1 ELSE 1
      dot == strrchr(src, base, ".")
      prefix_len == IF dot # 0 THEN dot - 1 ELSE strlen(src)
  IN SubSeq(src, 1, prefix_len) \o new_ext

ExtBit == <<".", "b", "i", "t", NUL>>
ExtBif == <<".", "b", "i", "f", NUL>>
ExtBin == <<".", "b", "i", "n", NUL>>

\* the file names given on the command line
ArgNames ==
  { <<"a", ".", "x", NUL>>,
    <<"d", ".", "e", "/", "a", NUL>>,
    <<NUL>> }

(***************************************************************************)
(* uint32_t values, kept as <<high half, low half>> of 16 bits each so     *)
(* that the arithmetic wraps at 2^32 as the C arithmetic does.             *)
(***************************************************************************)
Half == 65536
U32(n) == <<n \div Half, n % Half>>
IsZero(x) == x[1] = 0 /\ x[2] = 0
Less(x, y) == x[1] < y[1] \/ (x[1] = y[1] /\ x[2] < y[2])
Mul2(x) ==
  LET lo2 == x[2] * 2
  IN <<(x[1] * 2 + lo2 \div Half) % Half, lo2 % Half>>

\* the width of uint32_t
WordBits == 32
RECURSIVE Doubled(_, _)
\* x after k doublings
Doubled(x, k) == IF k = 0 THEN x ELSE Doubled(Mul2(x), k - 1)

RECURSIVE Pow2Halves(_)
\* the powers of two below 2^16
Pow2Halves(k) == IF k = 0 THEN {1} ELSE {2 * p : p \in Pow2Halves(k - 1)} \cup {1}
IsPow2(x) ==
  \/ x[1] = 0 /\ x[2] \in Pow2Halves(15)
  \/ x[2] = 0 /\ x[1] \in Pow2Halves(15)

\* the estimates estimate_boot_image_size hands back
EsizeValues ==
  { U32(0), U32(1), U32(2), U32(3), U32(5), <<1, 0>>, <<1, 1>>,
    <<32767, 65535>>, <<32768, 0>>, <<32768, 1>>, <<65535, 65535>> }

(***************************************************************************)
(* Error values.  SUCCESS is the zero of the error type and of the exit    *)
(* status (EXIT_SUCCESS); every other value is non-zero.                   *)
(***************************************************************************)
SUCCESS == "SUCCESS"
EXIT_FAILURE == "EXIT_FAILURE"
ERROR_NOMEM == "ERROR_NOMEM"
ERROR_BOOTROM_NOFILE == "ERROR_BOOTROM_NOFILE"
ERROR_CANT_WRITE == "ERROR_CANT_WRITE"
\* what bif_parse / bif_parse_buf return
ParseResults == {SUCCESS, "ERROR_BIF_PARSER", ERROR_NOMEM}
\* what create_boot_image returns
CreateResults == {SUCCESS, "ERROR_BOOTROM_ELF", ERROR_NOMEM}

BIF_ARCH_ZYNQ == "BIF_ARCH_ZYNQ"
BIF_ARCH_ZYNQMP == "BIF_ARCH_ZYNQMP"
zynq_bops == "zynq_bops"
zynqmp_bops == "zynqmp_bops"

VARIABLES
  pc,              \* position of the run
  nevents,         \* argument events delivered so far
  arg_num,         \* state->arg_num: positionals seen so far
  arguments,       \* struct arguments
  derived_input,   \* char *derived_input
  derived_output,  \* char *derived_output
  cfg,             \* bif_cfg_t cfg: arch, nodes_num
  bops,            \* bootrom_ops_t *bops
  err,             \* error err
  ret,             \* int ret
  esize,           \* uint32_t esize
  esize_aligned,   \* uint32_t esize_aligned
  file_data,       \* uint32_t *file_data: "uninit", "NULL", "alloc", "freed"
  ofile_size,      \* uint32_t ofile_size
  ofile,           \* FILE *ofile: "uninit", "NULL", "open", "closed"
  disk,            \* the output file this run created: its path and its words
  trace            \* the calls main has made, in order, with argument and result

vars == <<pc, nevents, arg_num, arguments, derived_input, derived_output, cfg, bops,
          err, ret, esize, esize_aligned, file_data, ofile_size, ofile, disk, trace>>

argvars == <<nevents, arg_num, arguments>>
mainvars == <<derived_input, derived_output, cfg, bops, err, ret, esize,
              esize_aligned, file_data, ofile_size, ofile, disk, trace>>

Call(name, arg, result) == [call |-> name, arg |-> arg, result |-> result]
Log(name, arg, result) == Append(trace, Call(name, arg, result))

\* main, lines 152-157: locals as declared, arguments zeroed by memset
Init ==
  /\ pc = "argp"
  /\ nevents = 0
  /\ arg_num = 0
  /\ arguments = [zynqmp |-> FALSE, parse_only |-> FALSE, bit2bin |-> FALSE,
                  bif_filename |-> NULL, bin_filename |-> NULL]
  /\ derived_input = NULL
  /\ derived_output = NULL
  /\ cfg = [arch |-> "uninit", nodes_num |-> 0]
  /\ bops = "uninit"
  /\ err = "uninit"
  /\ ret = EXIT_FAILURE
  /\ esize = U32(0)
  /\ esize_aligned = U32(0)
  /\ file_data = "uninit"
  /\ ofile_size = U32(0)
  /\ ofile = "uninit"
  /\ disk = [path |-> NULL, words |-> U32(0)]
  /\ trace = <<>>

(***************************************************************************)
(* argp_parser, one action per key.  argp_usage prints the usage and exits *)
(* the process (argp_parse is called with flags 0), so nothing after it is *)
(* executed.                                                               *)
(***************************************************************************)
Usage ==
  /\ pc' = "usage"
  /\ UNCHANGED <<argvars, mainvars>>

\* case 'u'
ArgpZynqmp ==
  /\ pc = "argp" /\ nevents < MaxArgs
  /\ arguments' = [arguments EXCEPT !.zynqmp = TRUE]
  /\ nevents' = nevents + 1
  /\ UNCHANGED <<pc, arg_num, mainvars>>

\* case 'p'
ArgpParseOnly ==
  /\ pc = "argp" /\ nevents < MaxArgs
  /\ arguments' = [arguments EXCEPT !.parse_only = TRUE]
  /\ nevents' = nevents + 1
  /\ UNCHANGED <<pc, arg_num, mainvars>>

\* case 'b'
ArgpBit2bin ==
  /\ pc = "argp" /\ nevents < MaxArgs
  /\ arguments' = [arguments EXCEPT !.bit2bin = TRUE]
  /\ nevents' = nevents + 1
  /\ UNCHANGED <<pc, arg_num, mainvars>>

\* case 'i'
ArgpInput ==
  /\ pc = "argp" /\ nevents < MaxArgs
  /\ \E arg \in ArgNames : arguments' = [arguments EXCEPT !.bif_filename = arg]
  /\ nevents' = nevents + 1
  /\ UNCHANGED <<pc, arg_num, mainvars>>

\* case 'o'
ArgpOutput ==
  /\ pc = "argp" /\ nevents < MaxArgs
  /\ \E arg \in ArgNames : arguments' = [arguments EXCEPT !.bin_filename = arg]
  /\ nevents' = nevents + 1
  /\ UNCHANGED <<pc, arg_num, mainvars>>

\* case ARGP_KEY_ARG
ArgpArg ==
  /\ pc = "argp" /\ nevents < MaxArgs
  /\ \E arg \in ArgNames :
       IF arg_num = 0 THEN
         IF arguments.bif_filename # NULL \/ arguments.bin_filename # NULL
         THEN Usage
         ELSE /\ arguments' = [arguments EXCEPT !.bif_filename = arg]
              /\ arg_num' = arg_num + 1
              /\ nevents' = nevents + 1
              /\ UNCHANGED <<pc, mainvars>>
       ELSE IF arg_num = 1 THEN
         IF arguments.bin_filename # NULL
         THEN Usage
         ELSE /\ arguments' = [arguments EXCEPT !.bin_filename = arg]
              /\ arg_num' = arg_num + 1
              /\ nevents' = nevents + 1
              /\ UNCHANGED <<pc, mainvars>>
       ELSE Usage

\* ARGP_KEY_END without its check
ArgpEndAcceptsAnything == TRUE

\* the check ARGP_KEY_END makes
ArgpEndAccepts == arguments.bif_filename # NULL \/ arguments.bin_filename # NULL

\* case ARGP_KEY_END: argp_parse returns to main
ArgpEnd ==
  /\ pc = "argp"
  /\ IF ArgpEndAccepts
     THEN pc' = "derive_input" /\ UNCHANGED <<argvars, mainvars>>
     ELSE Usage

(***************************************************************************)
(* main, one action per stage.  A stage ends where the next call whose     *)
(* result main branches on begins.                                         *)
(***************************************************************************)

\* lines 162-170: derive the input name from the output name
DeriveInput ==
  /\ pc = "derive_input"
  /\ IF arguments.bif_filename = NULL THEN
       LET ext == IF arguments.bit2bin THEN ExtBit ELSE ExtBif
           src == arguments.bin_filename
       IN IF src = NULL THEN
            \* strrchr(NULL, ...): undefined behaviour
            /\ pc' = "undefined"
            /\ trace' = Log("derive_filename", <<src, ext>>, "undefined")
            /\ UNCHANGED <<argvars, derived_input, derived_output, cfg, bops, err, ret,
                           esize, esize_aligned, file_data, ofile_size, ofile, disk>>
          ELSE
            \E ok \in BOOLEAN :
              IF ok THEN
                /\ derived_input' = derive_filename(src, ext)
                /\ arguments' = [arguments EXCEPT !.bif_filename = derive_filename(src, ext)]
                /\ trace' = Log("derive_filename", <<src, ext>>, "ok")
                /\ pc' = "derive_output"
                /\ UNCHANGED <<nevents, arg_num, derived_output, cfg, bops, err, ret,
                               esize, esize_aligned, file_data, ofile_size, ofile, disk>>
              ELSE
                /\ ret' = ERROR_NOMEM
                /\ trace' = Log("derive_filename", <<src, ext>>, "NULL")
                /\ pc' = "cleanup"
                /\ UNCHANGED <<argvars, derived_input, derived_output, cfg, bops, err,
                               esize, esize_aligned, file_data, ofile_size, ofile, disk>>
     ELSE
       /\ pc' = "derive_output"
       /\ UNCHANGED <<argvars, mainvars>>

\* line 172 without the test of parse_only
NeedsDerivedOutputAlways == arguments.bin_filename = NULL

\* line 172: the condition under which main derives the output name
NeedsDerivedOutput == arguments.bin_filename = NULL /\ ~arguments.parse_only

\* lines 172-182: derive the output name from the input name
DeriveOutput ==
  /\ pc = "derive_output"
  /\ IF NeedsDerivedOutput THEN
       LET src == arguments.bif_filename
       IN IF src = NULL THEN
            /\ pc' = "undefined"
            /\ trace' = Log("derive_filename", <<src, ExtBin>>, "undefined")
            /\ UNCHANGED <<argvars, derived_input, derived_output, cfg, bops, err, ret,
                           esize, esize_aligned, file_data, ofile_size, ofile, disk>>
          ELSE
            \E ok \in BOOLEAN :
              IF ok THEN
                /\ derived_output' = derive_filename(src, ExtBin)
                /\ arguments' = [arguments EXCEPT !.bin_filename = derive_filename(src, ExtBin)]
                /\ trace' = Log("derive_filename", <<src, ExtBin>>, "ok")
                /\ pc' = "init"
                /\ UNCHANGED <<nevents, arg_num, derived_input, cfg, bops, err, ret,
                               esize, esize_aligned, file_data, ofile_size, ofile, disk>>
              ELSE
                /\ ret' = ERROR_NOMEM
                /\ trace' = Log("derive_filename", <<src, ExtBin>>, "NULL")
                /\ pc' = "cleanup"
                /\ UNCHANGED <<argvars, derived_input, derived_output, cfg, bops, err,
                               esize, esize_aligned, file_data, ofile_size, ofile, disk>>
     ELSE
       /\ pc' = "init"
       /\ UNCHANGED <<argvars, mainvars>>

\* line 187
SelectArch(zynqmp) == IF zynqmp THEN BIF_ARCH_ZYNQMP ELSE BIF_ARCH_ZYNQ

\* line 188 with the Zynq table whatever -u says
SelectBopsZynqOnly(zynqmp) == zynq_bops

\* line 188
SelectBops(zynqmp) == IF zynqmp THEN zynqmp_bops ELSE zynq_bops

\* lines 184-188: init_bif_cfg, then the architecture
InitCfg ==
  /\ pc = "init"
  /\ cfg' = [arch |-> SelectArch(arguments.zynqmp), nodes_num |-> 0]
  /\ bops' = SelectBops(arguments.zynqmp)
  /\ trace' = Log("init_bif_cfg", NULL, "void")
  /\ pc' = "parse"
  /\ UNCHANGED <<argvars, derived_input, derived_output, err, ret, esize,
                 esize_aligned, file_data, ofile_size, ofile, disk>>

\* lines 191-196: the one-node document "all: { %s }\n" snprintf builds
BifWrap(name) ==
  <<"a", "l", "l", ":", " ", "{", " ">> \o SubSeq(name, 1, strlen(name))
     \o <<" ", "}", "\n", NUL>>

\* lines 202-207: what main does with the parser's result
AfterParse(e, n, tr) ==
  /\ err' = e
  /\ cfg' = [cfg EXCEPT !.nodes_num = n]
  /\ trace' = tr
  /\ IF e # SUCCESS THEN ret' = e /\ pc' = "cleanup_cfg"
     ELSE IF n = 0 THEN pc' = "cleanup_no_file" /\ UNCHANGED ret
     ELSE pc' = "report" /\ UNCHANGED ret
  /\ UNCHANGED <<argvars, derived_input, derived_output, bops, esize, esize_aligned,
                 file_data, ofile_size, ofile, disk>>

\* line 195: where main goes when malloc(bif_len) fails
Bit2binNomemTarget == "done"

\* lines 190-207: run the parser, on the file or on the bit2bin document
Parse ==
  /\ pc = "parse"
  /\ IF arguments.bit2bin THEN
       \E ok \in BOOLEAN :
         IF ok THEN
           \E e \in ParseResults, n \in 0..MaxNodes :
             AfterParse(e, n,
               trace \o << Call("malloc_bif_buf", NULL, "ok"),
                           Call("bif_parse_buf", BifWrap(arguments.bif_filename), e),
                           Call("free_bif_buf", NULL, "void") >>)
         ELSE
           \* return ERROR_NOMEM
           /\ ret' = ERROR_NOMEM
           /\ pc' = Bit2binNomemTarget
           /\ trace' = Log("malloc_bif_buf", NULL, "NULL")
           /\ UNCHANGED <<argvars, derived_input, derived_output, cfg, bops, err,
                          esize, esize_aligned, file_data, ofile_size, ofile, disk>>
     ELSE
       \E e \in ParseResults, n \in 0..MaxNodes :
         AfterParse(e, n, Log("bif_parse", arguments.bif_filename, e))

\* lines 209-226: list the nodes, stop here in parse-only mode
Report ==
  /\ pc = "report"
  /\ IF arguments.parse_only
     THEN ret' = SUCCESS /\ pc' = "cleanup_cfg"
     ELSE pc' = "estimate" /\ UNCHANGED ret
  /\ UNCHANGED <<argvars, derived_input, derived_output, cfg, bops, err, esize,
                 esize_aligned, file_data, ofile_size, ofile, disk, trace>>

\* lines 229-234: the estimate, and the start of the rounding
Estimate ==
  /\ pc = "estimate"
  /\ \E e \in EsizeValues :
       /\ esize' = e
       /\ trace' = Log("estimate_boot_image_size", NULL, IF IsZero(e) THEN "zero" ELSE "nonzero")
       /\ IF IsZero(e)
          THEN pc' = "cleanup_no_file" /\ UNCHANGED esize_aligned
          ELSE pc' = "align" /\ esize_aligned' = U32(2)
  /\ UNCHANGED <<argvars, derived_input, derived_output, cfg, bops, err, ret,
                 file_data, ofile_size, ofile, disk>>

\* lines 235-236: one test of the while condition, and one doubling.  Once
\* esize_aligned has wrapped to 0 the doubling leaves the state as it is: the
\* program spins in the loop.
Align ==
  /\ pc = "align"
  /\ IF Less(esize_aligned, esize)
     THEN esize_aligned' = Mul2(esize_aligned) /\ UNCHANGED pc
     ELSE pc' = "alloc" /\ UNCHANGED esize_aligned
  /\ UNCHANGED <<argvars, derived_input, derived_output, cfg, bops, err, ret, esize,
                 file_data, ofile_size, ofile, disk, trace>>

\* lines 239-243: the image buffer
Alloc ==
  /\ pc = "alloc"
  /\ \E ok \in BOOLEAN :
       IF ok THEN
         /\ file_data' = "alloc"
         /\ trace' = Log("malloc_file_data", esize_aligned, "ok")
         /\ pc' = "create"
         /\ UNCHANGED ret
       ELSE
         /\ file_data' = "NULL"
         /\ trace' = Log("malloc_file_data", esize_aligned, "NULL")
         /\ ret' = ERROR_NOMEM
         /\ pc' = "cleanup_cfg"
  /\ UNCHANGED <<argvars, derived_input, derived_output, cfg, bops, err, esize,
                 esize_aligned, ofile_size, ofile, disk>>

\* the used lengths create_boot_image can hand back for a buffer of cap words
UsedLengths(cap) == {U32(n) : n \in {m \in 0..MaxWords : ~Less(cap, U32(m))}}

\* line 250 without the goto: the error falls through to the fopen
CreateErrorFallsThrough == "open"

\* line 250: where main goes when create_boot_image fails
CreateErrorTarget == "cleanup_cfg"

\* lines 246-251: compose the image in memory
Create ==
  /\ pc = "create"
  /\ \E e \in CreateResults :
       /\ err' = e
       /\ trace' = IF e # SUCCESS
                   THEN trace \o << Call("create_boot_image", <<cfg.arch, bops>>, e),
                                    Call("free_file_data", NULL, "void") >>
                   ELSE Log("create_boot_image", <<cfg.arch, bops>>, e)
       /\ IF e # SUCCESS
          THEN /\ file_data' = "freed"
               /\ ret' = e
               /\ pc' = CreateErrorTarget
               /\ UNCHANGED ofile_size
          ELSE /\ \E used \in UsedLengths(esize_aligned) : ofile_size' = used
               /\ pc' = "open"
               /\ UNCHANGED <<file_data, ret>>
  /\ UNCHANGED <<argvars, derived_input, derived_output, cfg, bops, esize,
                 esize_aligned, ofile, disk>>

\* lines 253-259: open the output file
Open ==
  /\ pc = "open"
  /\ IF arguments.bin_filename = NULL THEN
       \* fopen(NULL, ...): undefined behaviour
       /\ pc' = "undefined"
       /\ trace' = Log("fopen", NULL, "undefined")
       /\ UNCHANGED <<ofile, disk, ret, file_data>>
     ELSE
       \E ok \in BOOLEAN :
         IF ok THEN
           /\ ofile' = "open"
           /\ disk' = [path |-> arguments.bin_filename, words |-> U32(0)]
           /\ trace' = Log("fopen", arguments.bin_filename, "ok")
           /\ pc' = "write"
           /\ UNCHANGED <<ret, file_data>>
         ELSE
           /\ ofile' = "NULL"
           /\ ret' = ERROR_CANT_WRITE
           /\ file_data' = "freed"
           /\ trace' = trace \o << Call("fopen", arguments.bin_filename, "NULL"),
                                   Call("free_file_data", NULL, "void") >>
           /\ pc' = "cleanup_cfg"
           /\ UNCHANGED disk
  /\ UNCHANGED <<argvars, derived_input, derived_output, cfg, bops, err, esize,
                 esize_aligned, ofile_size>>

\* line 261 writing the whole allocation
WriteCountCapacity == esize_aligned

\* line 261: the number of words main asks fwrite to write
WriteCount == ofile_size

\* line 261: the words fwrite can report written out of nmemb
Written(nmemb) == {U32(n) : n \in {m \in 0..MaxWords : ~Less(nmemb, U32(m))}} \cup {nmemb}

\* lines 261-267: write the image, close the file, free the buffer
Write ==
  /\ pc = "write"
  /\ \E w \in Written(WriteCount) :
       /\ disk' = [disk EXCEPT !.words = w]
       /\ trace' = trace \o << Call("fwrite", WriteCount, IF w = WriteCount THEN "complete" ELSE "short"),
                               Call("fclose", NULL, "void"),
                               Call("free_file_data", NULL, "void") >>
  /\ ofile' = "closed"
  /\ file_data' = "freed"
  /\ ret' = SUCCESS
  /\ pc' = "cleanup_cfg"
  /\ UNCHANGED <<argvars, derived_input, derived_output, cfg, bops, err, esize,
                 esize_aligned, ofile_size>>

\* line 277 missing: ret keeps the value it had
NoFileStatusKept == ret

\* line 277: the status of "nothing to build"
NoFileStatus == ERROR_BOOTROM_NOFILE

\* lines 276-278: cleanup_no_file
CleanupNoFile ==
  /\ pc = "cleanup_no_file"
  /\ ret' = NoFileStatus
  /\ pc' = "cleanup_cfg"
  /\ UNCHANGED <<argvars, derived_input, derived_output, cfg, bops, err, esize,
                 esize_aligned, file_data, ofile_size, ofile, disk, trace>>

\* lines 269-270: cleanup_cfg
CleanupCfg ==
  /\ pc = "cleanup_cfg"
  /\ trace' = Log("deinit_bif_cfg", NULL, "void")
  /\ pc' = "cleanup"
  /\ UNCHANGED <<argvars, derived_input, derived_output, cfg, bops, err, ret, esize,
                 esize_aligned, file_data, ofile_size, ofile, disk>>

\* lines 271-274: cleanup, and the return
Cleanup ==
  /\ pc = "cleanup"
  /\ trace' = trace \o << Call("free_derived_input", derived_input, "void"),
                          Call("free_derived_output", derived_output, "void") >>
  /\ pc' = "done"
  /\ UNCHANGED <<argvars, derived_input, derived_output, cfg, bops, err, ret, esize,
                 esize_aligned, file_data, ofile_size, ofile, disk>>

Next ==
  \/ ArgpZynqmp
  \/ ArgpParseOnly
  \/ ArgpBit2bin
  \/ ArgpInput
  \/ ArgpOutput
  \/ ArgpArg
  \/ ArgpEnd
  \/ DeriveInput
  \/ DeriveOutput
  \/ InitCfg
  \/ Parse
  \/ Report
  \/ Estimate
  \/ Align
  \/ Alloc
  \/ Create
  \/ Open
  \/ Write
  \/ CleanupNoFile
  \/ CleanupCfg
  \/ Cleanup

Spec == Init /\ [][Next]_vars

(***************************************************************************)
(* Reading the trace.                                                      *)
(***************************************************************************)
Calls(name) == {i \in DOMAIN trace : trace[i].call = name}
Called(name) == Calls(name) # {}
Returned(name, result) == \E i \in Calls(name) : trace[i].result = result
ParserCalls == Calls("bif_parse") \cup Calls("bif_parse_buf")
ParserSucceeded == \E i \in ParserCalls : trace[i].result = SUCCESS
ParserFailed == \E i \in ParserCalls : trace[i].result # SUCCESS
CreateFailed == \E i \in Calls("create_boot_image") : trace[i].result # SUCCESS
NomemFailed ==
  \/ Returned("derive_filename", "NULL")
  \/ Returned("malloc_bif_buf", "NULL")
  \/ Returned("malloc_file_data", "NULL")
NoFileFailed ==
  \/ ParserSucceeded /\ cfg.nodes_num = 0
  \/ Returned("estimate_boot_image_size", "zero")
\* a stage before the output file is opened has failed
StageFailed == NomemFailed \/ ParserFailed \/ NoFileFailed \/ CreateFailed
OutputTouched == Called("fopen") \/ Called("fwrite") \/ disk.path # NULL
\* the calls that belong to a stage of the pipeline, not to the cleanup
StageCalls ==
  {"derive_filename", "init_bif_cfg", "malloc_bif_buf", "bif_parse", "bif_parse_buf",
   "estimate_boot_image_size", "malloc_file_data", "create_boot_image", "fopen",
   "fwrite"}
\* the event at index i reports a failure
Fails(i) ==
  LET ev == trace[i]
  IN \/ ev.call \in {"derive_filename", "malloc_bif_buf", "malloc_file_data", "fopen"}
          /\ ev.result = "NULL"
     \/ ev.call \in {"bif_parse", "bif_parse_buf"}
          /\ (ev.result # SUCCESS \/ cfg.nodes_num = 0)
     \/ ev.call = "estimate_boot_image_size" /\ ev.result = "zero"
     \/ ev.call = "create_boot_image" /\ ev.result # SUCCESS

(***************************************************************************)
(* The claims.                                                             *)
(***************************************************************************)

\* C1: the output file is opened only after the parse succeeded with at least
\* one node, the estimate was non-zero, the buffer was allocated and
\* create_boot_image returned no error, each of them before the fopen; when
\* one of those stages fails the output file is neither opened nor written.
C1_OutputOnlyAfterImageReady ==
  /\ OutputTouched =>
       \A o \in Calls("fopen") \cup Calls("fwrite") :
         /\ \E i \in ParserCalls : i < o /\ trace[i].result = SUCCESS
         /\ cfg.nodes_num > 0
         /\ \E i \in Calls("estimate_boot_image_size") : i < o /\ trace[i].result = "nonzero"
         /\ \E i \in Calls("malloc_file_data") : i < o /\ trace[i].result = "ok"
         /\ \E i \in Calls("create_boot_image") : i < o /\ trace[i].result = SUCCESS
  /\ disk.path # NULL => Returned("fopen", "ok")
  /\ StageFailed => ~OutputTouched

\* a run that composed an image and opened the output file
C1_Witness ==
  /\ pc = "done"
  /\ Returned("create_boot_image", SUCCESS)
  /\ Returned("fopen", "ok")
  /\ disk.path # NULL

\* C2: with the parse-only flag set main never calls
\* estimate_boot_image_size, never allocates the image buffer, never calls
\* create_boot_image, never derives an output file name and never opens or
\* writes the output path, whatever the parser returns and whether or not an
\* output name was given.
C2_ParseOnlyTouchesNothing ==
  arguments.parse_only =>
    /\ ~Called("estimate_boot_image_size")
    /\ ~Called("malloc_file_data")
    /\ file_data = "uninit"
    /\ ~Called("create_boot_image")
    /\ derived_output = NULL
    /\ \A i \in Calls("derive_filename") : trace[i].arg[2] # ExtBin
    /\ ~Called("fopen")
    /\ ~Called("fwrite")
    /\ disk.path = NULL

\* a parse-only run without an output name that parsed a valid file
C2_Witness ==
  /\ pc = "done"
  /\ arguments.parse_only
  /\ arguments.bin_filename = NULL
  /\ ParserSucceeded
  /\ ret = SUCCESS

\* C3: for every non-zero estimate the rounding loop terminates (from every
\* state at the head of the loop, some number of doublings makes the loop
\* condition false; 32 doublings shift every bit out of a uint32_t, so no
\* more need be tried) and it is left with esize_aligned a power of two that
\* is at least esize.
C3_RoundingTerminates ==
  /\ pc = "align" =>
       \E k \in 0..WordBits : ~Less(Doubled(esize_aligned, k), esize)
  /\ pc \in {"alloc", "create", "open", "write"} =>
       IsPow2(esize_aligned) /\ ~Less(esize_aligned, esize)

\* C4: the number of words main asks fwrite to write is the used length
\* ofile_size create_boot_image returned, so the output file never holds more
\* words than that.
C4_WritesUsedLength ==
  /\ \A i \in Calls("fwrite") : trace[i].arg = ofile_size
  /\ ~Less(ofile_size, disk.words)

\* a run that wrote an image whose used length is neither the estimate nor
\* the capacity
C4_Witness ==
  /\ pc = "done"
  /\ Returned("fwrite", "complete")
  /\ ~IsZero(ofile_size)
  /\ ofile_size # esize
  /\ ofile_size # esize_aligned
  /\ disk.words = ofile_size

\* C5: in parse-only mode, whenever the parser returned no error, main ends
\* with the success status, also when nodes_num is 0.
C5_ParseOnlySucceeds ==
  (pc = "done" /\ arguments.parse_only /\ ParserSucceeded) => ret = SUCCESS

\* C6: when main returns after init_bif_cfg has run, deinit_bif_cfg has run
\* exactly once, the image buffer is freed exactly once if it was allocated,
\* and the derived file names have been freed.
C6_ReleasesEverything ==
  (pc = "done" /\ Called("init_bif_cfg")) =>
    /\ Cardinality(Calls("deinit_bif_cfg")) = 1
    /\ Cardinality(Calls("free_file_data")) =
         Cardinality({i \in Calls("malloc_file_data") : trace[i].result = "ok"})
    /\ file_data \in {"uninit", "NULL", "freed"}
    /\ \E i \in Calls("free_derived_input") : trace[i].arg = derived_input
    /\ \E i \in Calls("free_derived_output") : trace[i].arg = derived_output

\* C7: main ends with the success status only when parse-only mode completed
\* a successful parse or all ofile_size words were written to the output file.
C7_SuccessMeansWritten ==
  (pc = "done" /\ ret = SUCCESS) =>
    \/ arguments.parse_only /\ ParserSucceeded
    \/ disk.path # NULL /\ disk.words = ofile_size

\* C8: once selected, cfg.arch is BIF_ARCH_ZYNQMP exactly when bops is
\* zynqmp_bops and BIF_ARCH_ZYNQ exactly when bops is zynq_bops; both are set
\* before the parser is called, create_boot_image gets the pair selected, and
\* no step of main changes either after the selection.
C8_ArchSelectedOnce ==
  /\ [](/\ Called("init_bif_cfg") =>
             /\ cfg.arch \in {BIF_ARCH_ZYNQ, BIF_ARCH_ZYNQMP}
             /\ bops \in {zynq_bops, zynqmp_bops}
             /\ (cfg.arch = BIF_ARCH_ZYNQMP <=> bops = zynqmp_bops)
             /\ (cfg.arch = BIF_ARCH_ZYNQ <=> bops = zynq_bops)
             /\ (cfg.arch = BIF_ARCH_ZYNQMP <=> arguments.zynqmp)
        /\ \A i \in ParserCalls : \E j \in Calls("init_bif_cfg") : j < i
        /\ \A i \in Calls("create_boot_image") : trace[i].arg = <<cfg.arch, bops>>)
  /\ [][Called("init_bif_cfg") => cfg.arch' = cfg.arch /\ bops' = bops]_vars

\* a ZynqMP run that reached create_boot_image
C8_Witness ==
  /\ Called("create_boot_image")
  /\ arguments.zynqmp
  /\ cfg.arch = BIF_ARCH_ZYNQMP
  /\ bops = zynqmp_bops

\* C9: the exit status names the first stage that failed: ERROR_NOMEM for a
\* failed file name derivation or buffer allocation, the parser's value for a
\* parser error, ERROR_BOOTROM_NOFILE for zero nodes or a zero estimate, the
\* value of create_boot_image for its error, ERROR_CANT_WRITE for a failed
\* fopen; no stage runs after a failed one, and a run with a failure never
\* returns the success status.
C9_StatusNamesFailedStage ==
  /\ \A i \in DOMAIN trace :
       Fails(i) => \A j \in DOMAIN trace : j > i => trace[j].call \notin StageCalls
  /\ pc = "done" =>
       /\ NomemFailed => ret = ERROR_NOMEM
       /\ \A i \in ParserCalls : trace[i].result # SUCCESS => ret = trace[i].result
       /\ NoFileFailed => ret = ERROR_BOOTROM_NOFILE
       /\ \A i \in Calls("create_boot_image") :
            trace[i].result # SUCCESS => ret = trace[i].result
       /\ Returned("fopen", "NULL") => ret = ERROR_CANT_WRITE
       /\ (StageFailed \/ Returned("fopen", "NULL")) => ret # SUCCESS

\* a run that ended on a zero estimate
C9_Witness ==
  /\ pc = "done"
  /\ Returned("estimate_boot_image_size", "zero")
  /\ ret = ERROR_BOOTROM_NOFILE

\* C10: when argp_parser has accepted the arguments, at least one of
\* bif_filename and bin_filename is set; derive_filename is never called with
\* a NULL source, bif_filename is set when the parser is called and
\* bin_filename is set when fopen is reached.
C10_FilenamesSet ==
  /\ pc \notin {"argp", "usage"} =>
       arguments.bif_filename # NULL \/ arguments.bin_filename # NULL
  /\ \A i \in Calls("derive_filename") : trace[i].arg[1] # NULL
  /\ pc = "parse" => arguments.bif_filename # NULL
  /\ \A i \in Calls("bif_parse") : trace[i].arg # NULL
  /\ pc = "open" => arguments.bin_filename # NULL
  /\ \A i \in Calls("fopen") : trace[i].arg # NULL
  /\ pc # "undefined"

\* a run given only a positional input that reached fopen with the derived
\* output name
C10_Witness ==
  /\ Called("fopen")
  /\ arg_num = 1
  /\ derived_output # NULL
  /\ arguments.bin_filename = derived_output
====
